---- MODULE Spec2Model ----
(***************************************************************************)
(* Real-time collaboration hub of the collaborative video editor:          *)
(* ConnectionManager (backend/app/websockets/manager.py) and the websocket *)
(* endpoint that drives it (backend/app/api/api_v1/endpoints/websocket.py).*)
(*                                                                         *)
(* Every connection is served by one asyncio task running                  *)
(* websocket_endpoint.  Tasks interleave only at an await; one action of   *)
(* this module is the code a task runs from one await to the next.  The    *)
(* awaits that separate actions are every send_text of a room broadcast    *)
(* and receive_text: a send takes effect and then the task may be          *)
(* suspended.  ConnectionManager.disconnect has no await and always runs   *)
(* inside one action.  Rooms and users are interchangeable, so the first   *)
(* connection is taken to ask for room 1 and not to be user 2.             *)
(*                                                                         *)
(* Spec is the hub with clients that join, send one frame and go away.     *)
(* JoinSpec has joins alone, of three users; OrderSpec has clients that    *)
(* send several frames and records what each client receives; StallSpec    *)
(* has a client that stops reading, and states the fairness of the event   *)
(* loop; IdentitySpec has clients whose frames carry identity fields of    *)
(* their own; ColorSpec has joins and leaves of users whose ids run past   *)
(* the size of the colour palette.                                         *)
(*                                                                         *)
(* The REST endpoints that keep projects, memberships, timeline clips and  *)
(* chat messages in the database (endpoints/projects.py, timeline.py,      *)
(* chat.py) are the second half of the module: one action is one request.  *)
(* ProjectSpec has projects created and deleted and members added,         *)
(* TimelineSpec clips created and reordered, ChatSpec messages written and *)
(* deleted.                                                                *)
(***************************************************************************)
EXTENDS Integers, Sequences, FiniteSets, Bags, TLC

\* ------------------------------------------------------------------ bounds
\* Inbound frames the clients send in one run, all connections together.
MaxFrames == 1
\* Clients that go away without the server's doing, in one run.
MaxLost == 1
\* Inbound frames in one run of OrderSpec, where one client sends several.
MaxOrderFrames == 2
\* Projects, timeline clips and chat messages created in one run.
MaxProjects == 2
MaxClips == 2
MaxMessages == 2
\* The largest user id of ColorSpec, past the size of the colour palette.
MaxUserId == 12

\* Python's None: a missing token, an absent key read with dict.get, no
\* exclude_websocket.
None == -1

\* The transport connections (WebSocket objects), in the order they open.
Conns == {1, 2, 3}
\* project ids (rooms) and user ids (participants)
Rooms == {1, 2}
Users == {1, 2}
\* every user row; the third takes part only in JoinSpec
Accounts == Users \cup {3}
\* a token that verify_token rejects
BadToken == 0
Tokens == {None, BadToken} \cup Users

\* User.username of the user row with this id
Username(u) == IF u = 1 THEN "alice" ELSE IF u = 2 THEN "bob" ELSE "carol"

\* ----------------------------------------------------------------- helpers
Range(s) == {s[i] : i \in DOMAIN s}

\* del d[k]
DropKey(d, k) == [x \in DOMAIN d \ {k} |-> d[x]]

\* d[k] = v
Put(d, k, v) == [x \in DOMAIN d \cup {k} |-> IF x = k THEN v ELSE d[x]]

\* dict.update(e)
Update(d, e) == [x \in DOMAIN d \cup DOMAIN e |-> IF x \in DOMAIN e THEN e[x] ELSE d[x]]

\* list.remove(x): drops the first occurrence of x (x is in the list)
Remove(s, x) ==
    LET i == CHOOSE j \in DOMAIN s : s[j] = x /\ \A k \in 1..(j - 1) : s[k] # x
    IN  SubSeq(s, 1, i - 1) \o SubSeq(s, i + 1, Len(s))

\* ---------------------------------------------------------------- colours
Palette == <<"#FF6B6B", "#4ECDC4", "#45B7D1", "#96CEB4", "#FFEAA7",
             "#DDA0DD", "#98D8C8", "#F7DC6F", "#BB8FCE", "#85C1E9">>

\* a bug: the modulus is not the palette's length
GenerateUserColor_short_modulus(user_id) == Palette[(user_id % (Len(Palette) - 1)) + 1]

\* colors[user_id % len(colors)] (Python lists are 0-based)
GenerateUserColor(user_id) == Palette[(user_id % Len(Palette)) + 1]

\* ------------------------------------------------------------------- state
VARIABLES
    active_connections,  \* project_id -> list of websockets (a dict: the domain varies)
    connection_users,    \* websocket -> [user_id, username, project_id]
    user_cursors,        \* project_id -> (user_id -> cursor dict)
    transport,           \* websocket -> "new" | "open" | "lost" | "stalled" | "closed"
    accepts,             \* websocket -> number of accept() calls issued on it
    pc,                  \* task -> "idle" | "bcast" | "blocked" | "recv" | "done"
    req,                 \* task -> the endpoint's project_id and user, while it runs
    bc,                  \* task -> the broadcast loop it is suspended in
    out,                 \* task -> envelopes that broadcast has delivered so far
    exit,                \* task -> how websocket_endpoint ended
    frames,              \* inbound frames received so far
    lost,                \* clients that have gone away so far
    last,                \* history: the handler that completed in the last step
    inbox,               \* history: what the clients in its domain have received
    db,                  \* the database: the tables the REST endpoints work on
    resp                 \* history: the REST request handled in the last step

mgrvars == <<active_connections, connection_users, user_cursors>>
restvars == <<db, resp>>
hubvars == <<active_connections, connection_users, user_cursors, transport, accepts,
             pc, req, bc, out, exit, frames, lost, last, inbox>>
vars == <<active_connections, connection_users, user_cursors, transport, accepts,
          pc, req, bc, out, exit, frames, lost, last, inbox, db, resp>>

\* The ConnectionManager's three dicts as one value; raised is set when a
\* statement of disconnect raises (KeyError, ValueError).
Mgr == [ac |-> active_connections, cu |-> connection_users, uc |-> user_cursors,
        raised |-> FALSE]

\* ------------------------------------------------- ConnectionManager.disconnect
\* a bug: the emptied list stays in the registry
leave_room_keep_empty(ac, project_id, ws) ==
    Put(ac, project_id, Remove(ac[project_id], ws))

\* lines 88-91, on active_connections (ws is in the room's list): the list
\* loses ws, and the room its key when the list is left empty
leave_room(ac, project_id, ws) ==
    IF Remove(ac[project_id], ws) = <<>>
    THEN DropKey(ac, project_id)
    ELSE Put(ac, project_id, Remove(ac[project_id], ws))

\* a bug: the cursor of the leaving user is kept
remove_cursor_never(uc, project_id, user_id) == uc

\* a bug: the cursor of the leaving user is removed from every room
remove_cursor_all_rooms(uc, project_id, user_id) ==
    [r \in DOMAIN uc |-> IF user_id \in DOMAIN uc[r] THEN DropKey(uc[r], user_id) ELSE uc[r]]

\* lines 94-96: "Remove user cursor"
remove_cursor(uc, project_id, user_id) ==
    IF project_id \in DOMAIN uc /\ user_id \in DOMAIN uc[project_id]
    THEN Put(uc, project_id, DropKey(uc[project_id], user_id))
    ELSE uc

\* a bug: disconnect has no "Remove user cursor"
unregister_keeps_cursor(M, ws) ==
    LET pid == M.cu[ws].project_id
        inroom == pid \in DOMAIN M.ac
        missing == inroom /\ ws \notin Range(M.ac[pid])
        emptied == inroom /\ ~missing /\ Remove(M.ac[pid], ws) = <<>>
        nocursors == emptied /\ pid \notin DOMAIN M.uc
        ac1 == IF inroom /\ ~missing THEN leave_room(M.ac, pid, ws) ELSE M.ac
    IN  IF missing \/ nocursors
        THEN [ac |-> ac1, cu |-> M.cu, uc |-> M.uc, raised |-> TRUE]
        ELSE [ac |-> ac1, cu |-> DropKey(M.cu, ws), uc |-> M.uc, raised |-> FALSE]

\* a bug: the room's cursor dict stays when the room's list is deleted
unregister_keeps_presence_map(M, ws) ==
    LET pid == M.cu[ws].project_id
        uid == M.cu[ws].user_id
        inroom == pid \in DOMAIN M.ac
        missing == inroom /\ ws \notin Range(M.ac[pid])
        ac1 == IF inroom /\ ~missing THEN leave_room(M.ac, pid, ws) ELSE M.ac
    IN  IF missing
        THEN [ac |-> ac1, cu |-> M.cu, uc |-> M.uc, raised |-> TRUE]
        ELSE [ac |-> ac1, cu |-> DropKey(M.cu, ws), uc |-> remove_cursor(M.uc, pid, uid),
              raised |-> FALSE]

\* lines 83-99, for a websocket that is in connection_users
unregister(M, ws) ==
    LET pid == M.cu[ws].project_id
        uid == M.cu[ws].user_id
        inroom == pid \in DOMAIN M.ac
        \* list.remove raises ValueError
        missing == inroom /\ ws \notin Range(M.ac[pid])
        emptied == inroom /\ ~missing /\ Remove(M.ac[pid], ws) = <<>>
        \* del self.user_cursors[project_id] raises KeyError
        nocursors == emptied /\ pid \notin DOMAIN M.uc
        ac1 == IF inroom /\ ~missing THEN leave_room(M.ac, pid, ws) ELSE M.ac
        uc1 == IF emptied /\ ~nocursors THEN DropKey(M.uc, pid) ELSE M.uc
    IN  IF missing \/ nocursors
        THEN [ac |-> ac1, cu |-> M.cu, uc |-> M.uc, raised |-> TRUE]
        ELSE [ac |-> ac1, cu |-> DropKey(M.cu, ws), uc |-> remove_cursor(uc1, pid, uid),
              raised |-> FALSE]

\* a bug: no "if websocket in self.connection_users", so the lookup of an
\* unregistered websocket raises KeyError
disconnect_unguarded(M, ws) ==
    IF ws \in DOMAIN M.cu THEN unregister(M, ws) ELSE [M EXCEPT !.raised = TRUE]

disconnect(M, ws) ==
    IF ws \in DOMAIN M.cu THEN unregister(M, ws) ELSE M

\* "for websocket in disconnected_websockets: self.disconnect(websocket)";
\* an exception ends the loop
RECURSIVE Cleanup(_, _)
Cleanup(M, failed) ==
    IF failed = <<>> \/ M.raised THEN M
    ELSE Cleanup(disconnect(M, Head(failed)), Tail(failed))

\* ------------------------------------------------------------- envelopes
\* the cursor dict connect stores for a user (lines 43-48): no timestamp key
InitCursor(uid) ==
    [x |-> 0, y |-> 0, username |-> Username(uid), color |-> GenerateUserColor(uid)]

UserJoined(uid, cursor) ==
    [type |-> "user_joined",
     user |-> [id |-> uid, username |-> Username(uid), cursor |-> cursor]]

\* active_users lists one {id, username, cursor} per key of the room's cursor
\* dict; it is kept here as that dict, id -> cursor (cursor.username is the name)
ProjectState(cursors) == [type |-> "project_state", active_users |-> cursors]

CursorUpdate(uid, cursor) == [type |-> "cursor_update", user_id |-> uid, cursor |-> cursor]

\* a bug: a user_id of the payload, when present, is relayed as the sender's
TimelineUpdate_from_payload(uid, data) ==
    [type |-> "timeline_update",
     user_id |-> IF data.user_id = None THEN uid ELSE data.user_id, data |-> data]

TimelineUpdate(uid, data) == [type |-> "timeline_update", user_id |-> uid, data |-> data]

\* a bug: identity fields of the payload, when present, are relayed
ChatMessage_from_payload(uid, uname, data) ==
    [type |-> "chat_message",
     user_id |-> IF data.user_id = None THEN uid ELSE data.user_id,
     username |-> IF data.username = "" THEN uname ELSE data.username,
     message |-> data.message, timestamp |-> data.timestamp]

ChatMessage(uid, uname, data) ==
    [type |-> "chat_message", user_id |-> uid, username |-> uname,
     message |-> data.message, timestamp |-> data.timestamp]

\* a bug: the pong does not echo the client's timestamp
Pong_without_echo(data) == [type |-> "pong", timestamp |-> None]

Pong(data) == [type |-> "pong", timestamp |-> data.timestamp]

\* message is the text and, for the one f-string among them, the value it
\* formats in ("" otherwise)
Error(text, arg) == [type |-> "error", message |-> <<text, arg>>]

\* ---------------------------------------------------------- inbound frames
\* An inbound text frame.  json says what json.loads makes of it: "invalid"
\* (it raises), "array" (valid JSON, not an object), "object".  The other
\* fields are the object's keys as dict.get reads them: None (or "", the
\* default handle_chat_message gives) when the key is absent.
Frame(type) ==
    [json |-> "object", type |-> type, x |-> None, y |-> None, timestamp |-> None,
     message |-> "", user_id |-> None, username |-> ""]

NoFrame == [Frame("none") EXCEPT !.json = "none"]

Frames ==
    { [Frame("none") EXCEPT !.json = "invalid"],
      [Frame("none") EXCEPT !.json = "array"],
      [Frame("cursor_update") EXCEPT !.x = 10, !.y = 20, !.timestamp = 3],
      Frame("cursor_update"),
      Frame("timeline_update"),
      [Frame("chat_message") EXCEPT !.message = "hi"],
      [Frame("chat_message") EXCEPT !.message = "hi", !.user_id = 2,
                                    !.username = Username(2)],
      [Frame("ping") EXCEPT !.timestamp = 42],
      Frame("document_update"),
      Frame("bogus") }

\* ------------------------------------------------------ the broadcast loop
\* What a task is running: kind is "none", "auth" (a rejected connection),
\* "join" (manager.connect), "frame" (one inbound frame, in frame) or "leave";
\* registered and wasopen say whether the connection was in connection_users
\* and its transport open when the handler began.  active says
\* broadcast_to_project reached its for loop, and then room, msg, exclude are
\* its arguments, idx the number of list items the list iterator has consumed,
\* failed the list disconnected_websockets, cont what follows the broadcast
\* ("snapshot": connect's project_state; "recv": back to receive_text).
\* orphan: the list being iterated is no longer the room's list (disconnect
\* deleted the room; the iterator holds the old, now empty, list object).
\* stable and start are history: no other task has changed the room's list
\* since the loop began; the room's list when the loop began.
NoBc(kind, frame, registered, wasopen) ==
    [kind |-> kind, frame |-> frame, registered |-> registered, wasopen |-> wasopen,
     active |-> FALSE, room |-> None, msg |-> [type |-> "none"], exclude |-> None,
     idx |-> 0, failed |-> <<>>, cont |-> "recv", orphan |-> FALSE, stable |-> TRUE,
     start |-> <<>>]

Idle == NoBc("none", NoFrame, FALSE, FALSE)

NoReq == [project_id |-> None, user |-> None]

\* the list iterator's next item that is not exclude_websocket: its index, or 0
NextIndex(list, idx, exclude) ==
    LET S == {i \in (idx + 1)..Len(list) : list[i] # exclude}
    IN  IF S = {} THEN 0 ELSE CHOOSE i \in S : \A j \in S : i <= j

IterList(M, b) ==
    IF b.orphan \/ b.room \notin DOMAIN M.ac THEN <<>> ELSE M.ac[b.room]

\* a task suspended in a send_text: one that returns or raises ("bcast"), or
\* one to a client that has stopped reading, which does neither ("blocked")
Suspended == {"bcast", "blocked"}

\* the effect of another task's step on a suspended loop
Touch(b, p, Mold, Mnew) ==
    IF p \notin Suspended THEN b
    ELSE LET gone == b.room \notin DOMAIN Mnew.ac
             changed == gone \/ b.room \notin DOMAIN Mold.ac
                             \/ Mnew.ac[b.room] # Mold.ac[b.room]
         IN  [b EXCEPT !.orphan = @ \/ gone, !.stable = @ /\ ~changed]

\* websocket.send_text succeeds on an open transport and raises otherwise
CanSend(tr, ws) == tr[ws] = "open"

\* websocket.send_text to a client that has stopped reading: the await
\* neither returns nor raises (the code sets no timeout on a send)
Stalled(tr, ws) == tr[ws] = "stalled"

\* History of a completed handler: the task, its identity, what it ran (the
\* fields of bc), members: the room's list when the for loop ended, before
\* the cleanup loop; delivered: the envelopes sent, in order; raised: it
\* ended in websocket_endpoint's "except Exception".
Summary(self, rq, b, members, o, raised) ==
    [task |-> self, project_id |-> rq.project_id, user |-> rq.user,
     kind |-> b.kind, frame |-> b.frame, registered |-> b.registered,
     wasopen |-> b.wasopen, active |-> b.active, msg |-> b.msg,
     exclude |-> b.exclude, stable |-> b.stable /\ ~b.orphan, failed |-> b.failed,
     start |-> b.start, members |-> members, delivered |-> o, raised |-> raised]

NoLast == Summary(None, NoReq, Idle, <<>>, <<>>, FALSE)

\* what the client at d has received once task self, which had delivered
\* out[self], has delivered o
Received(self, o, d) ==
    LET new == SubSeq(o, Len(out[self]) + 1, Len(o))
        mine == SelectSeq(new, LAMBDA e : e.to = d)
    IN  inbox[d] \o [i \in 1..Len(mine) |-> [from |-> self, env |-> mine[i].env]]

\* The end of a step of task self: the manager is M; the task is suspended in
\* loop b (p = "bcast", "blocked") or has completed the handler b (p = "recv",
\* "done").
Commit(self, M, rq, b, members, o, p, tr, ex) ==
    /\ active_connections' = M.ac
    /\ connection_users' = M.cu
    /\ user_cursors' = M.uc
    /\ bc' = [u \in Conns |-> IF u # self THEN Touch(bc[u], pc[u], Mgr, M)
                              ELSE IF p \in Suspended THEN b ELSE Idle]
    /\ out' = [out EXCEPT ![self] = IF p \in Suspended THEN o ELSE <<>>]
    /\ pc' = [pc EXCEPT ![self] = p]
    /\ req' = [req EXCEPT ![self] = IF p = "done" THEN NoReq ELSE rq]
    /\ transport' = tr
    /\ exit' = [exit EXCEPT ![self] = ex]
    /\ last' = IF p \in Suspended THEN NoLast
               ELSE Summary(self, rq, b, members, o, ex = "exception")
    /\ inbox' = [d \in DOMAIN inbox |-> Received(self, o, d)]
    /\ UNCHANGED restvars

\* websocket_endpoint's "except Exception": print, close, return
Raise(self, M, rq, b, members, o, tr) ==
    Commit(self, [M EXCEPT !.raised = FALSE], rq, b, members, o, "done",
           [tr EXCEPT ![self] = "closed"], "exception")

\* the task waits for ever in a send_text to a client that has stopped reading
Block(self, M, rq, b, o, tr) ==
    Commit(self, M, rq, b, <<>>, o, "blocked", tr, "running")

\* ConnectionManager.send_personal_message, a send that completes: o with the
\* message, when it was delivered, and the value the method returns.  An
\* exception of send_text is printed and dropped; no path has a return
\* statement.
send_personal_message(tr, ws, message, o) ==
    [out |-> IF CanSend(tr, ws) THEN Append(o, [to |-> ws, env |-> message]) ELSE o,
     returned |-> None]

\* the for loop has ended: the cleanup loop, then what follows the broadcast
AfterBroadcast(self, M, rq, b, o, tr) ==
    LET members == IterList(M, b)
        M2 == Cleanup(M, b.failed)
        \* a send to the task's own websocket follows: the error of
        \* handle_websocket_message's except, or connect's project_state
        tells == IF M2.raised THEN b.cont = "recv"
                 ELSE b.cont = "snapshot" /\ b.room \in DOMAIN M2.uc
    IN  IF tells /\ Stalled(tr, self)
        THEN Block(self, [M2 EXCEPT !.raised = FALSE], rq, b, o, tr)
        ELSE IF M2.raised
        THEN IF b.cont = "recv" /\ CanSend(tr, self)
             THEN \* handle_websocket_message's except: an error to the sender
                  Commit(self, [M2 EXCEPT !.raised = FALSE], rq, b, members,
                         Append(o, [to |-> self, env |-> Error("Internal server error", "")]),
                         "recv", tr, "running")
             ELSE Raise(self, M2, rq, b, members, o, tr)
        ELSE IF b.cont = "snapshot"
        THEN IF b.room \notin DOMAIN M2.uc
             THEN \* self.user_cursors[project_id]: KeyError
                  Raise(self, M2, rq, b, members, o, tr)
             ELSE Commit(self, M2, rq, b, members,
                         send_personal_message(tr, self, ProjectState(M2.uc[b.room]), o).out,
                         "recv", tr, "running")
        ELSE Commit(self, M2, rq, b, members, o, "recv", tr, "running")

\* a bug: the send is not inside a try, and the first failure ends the loop
RunBroadcast_stops_at_failure(self, M, rq, b, o, tr) ==
    LET list == IterList(M, b)
        i == NextIndex(list, b.idx, b.exclude)
    IN  IF i # 0 /\ Stalled(tr, list[i])
        THEN Block(self, M, rq, [b EXCEPT !.idx = i], o, tr)
        ELSE IF i # 0 /\ CanSend(tr, list[i])
        THEN Commit(self, M, rq, [b EXCEPT !.idx = i], <<>>,
                    Append(o, [to |-> list[i], env |-> b.msg]), "bcast", tr, "running")
        ELSE IF i # 0
        THEN AfterBroadcast(self, M, rq, [b EXCEPT !.idx = i, !.failed = Append(@, list[i])],
                            o, tr)
        ELSE AfterBroadcast(self, M, rq, b, o, tr)

\* broadcast_to_project from where the loop stands up to its next send_text
RunBroadcast(self, M, rq, b, o, tr) ==
    LET list == IterList(M, b)
        i == NextIndex(list, b.idx, b.exclude)
    IN  IF i # 0 /\ Stalled(tr, list[i])
        THEN Block(self, M, rq, [b EXCEPT !.idx = i], o, tr)
        ELSE IF i # 0
        THEN LET ws == list[i]
             IN  Commit(self, M, rq,
                        [b EXCEPT !.idx = i,
                                  !.failed = IF CanSend(tr, ws) THEN @ ELSE Append(@, ws)],
                        <<>>,
                        IF CanSend(tr, ws) THEN Append(o, [to |-> ws, env |-> b.msg]) ELSE o,
                        "bcast", tr, "running")
        ELSE AfterBroadcast(self, M, rq, b, o, tr)

\* a call of broadcast_to_project by the handler b0
broadcast_to_project(self, M, rq, b0, tr, project_id, message, exclude_websocket, cont) ==
    RunBroadcast(self, M, rq,
        [b0 EXCEPT !.active = project_id \in DOMAIN M.ac,
                   !.orphan = project_id \notin DOMAIN M.ac,
                   !.start = IF project_id \in DOMAIN M.ac THEN M.ac[project_id] ELSE <<>>,
                   !.room = project_id, !.msg = message,
                   !.exclude = exclude_websocket, !.cont = cont],
        <<>>, tr)

\* ------------------------------------------------------------ the database
\* The tables of app/models that the REST endpoints read and write, as the
\* committed rows.  An endpoint is an "async def" whose body has no await
\* (the Session's calls are synchronous), so the event loop runs each body
\* from its first statement to its return without another task in between:
\* one action is one request.  current_user is the user that
\* get_current_user_from_token resolved the request's token to.
\*
\* projects: id -> the row's owner_id; project_members: the rows, each
\* [project_id, user_id, role], as a bag (equal rows are counted; the table
\* has no order and no constraint over these columns); timeline_clips:
\* id -> [project_id, start_time]; chat_messages: id -> [project_id, user_id].
\* The seq fields are the autoincrement counters of the primary keys.
EmptyDb ==
    [projects |-> <<>>, project_seq |-> 0, project_members |-> EmptyBag,
     timeline_clips |-> <<>>, clip_seq |-> 0, chat_messages |-> <<>>, message_seq |-> 0]

\* ProjectMember.role: "owner, editor, viewer"
Roles == {"owner", "editor", "viewer"}

\* History of a REST request: the endpoint, current_user.id, the project or
\* row it names, its other argument, and the HTTP status and detail of the
\* response.
Response(op, user, id, arg, status, detail) ==
    [op |-> op, user |-> user, id |-> id, arg |-> arg, status |-> status,
     detail |-> detail]

NoResp == Response("none", None, None, None, 0, "")

\* ---------------------------------------------------------------- actions
Start ==
    /\ active_connections = <<>>
    /\ connection_users = <<>>
    /\ user_cursors = <<>>
    /\ transport = [c \in Conns |-> "new"]
    /\ accepts = [c \in Conns |-> 0]
    /\ pc = [c \in Conns |-> "idle"]
    /\ req = [c \in Conns |-> NoReq]
    /\ bc = [c \in Conns |-> Idle]
    /\ out = [c \in Conns |-> <<>>]
    /\ exit = [c \in Conns |-> "running"]
    /\ frames = 0
    /\ lost = 0
    /\ last = NoLast
    /\ db = EmptyDb
    /\ resp = NoResp

\* no client's inbox is recorded
Init == Start /\ inbox = <<>>

\* validate_websocket_token: the user (its id), or None.  verify_token and
\* get_user_by_username are outside this repository's source: a token is
\* either one they resolve to a user or one they reject.
\* a bug: the token's subject is taken for a user without verification
validate_websocket_token_unverified(token) == token

validate_websocket_token(token) == IF token \in Accounts THEN token ELSE None

\* a bug: the room's list is assigned, not appended to, and a connection
\* registered meanwhile is lost
register_lost_update(M, ws, project_id, uid) ==
    LET fresh == project_id \notin DOMAIN M.ac
        uc0 == IF fresh THEN Put(M.uc, project_id, <<>>) ELSE M.uc
    IN  [ac |-> Put(M.ac, project_id, <<ws>>),
         cu |-> Put(M.cu, ws, [user_id |-> uid, username |-> Username(uid),
                               project_id |-> project_id]),
         raised |-> FALSE,
         uc |-> Put(uc0, project_id, Put(uc0[project_id], uid, InitCursor(uid)))]

\* a bug: the websocket is appended to the room's list twice
register_twice(M, ws, project_id, uid) ==
    LET fresh == project_id \notin DOMAIN M.ac
        uc0 == IF fresh THEN Put(M.uc, project_id, <<>>) ELSE M.uc
    IN  [ac |-> Put(M.ac, project_id,
                    IF fresh THEN <<ws, ws>> ELSE M.ac[project_id] \o <<ws, ws>>),
         cu |-> Put(M.cu, ws, [user_id |-> uid, username |-> Username(uid),
                               project_id |-> project_id]),
         raised |-> FALSE,
         uc |-> Put(uc0, project_id, Put(uc0[project_id], uid, InitCursor(uid)))]

\* a bug: the cursor of a user who is already present is kept (setdefault)
register_keeps_cursor(M, ws, project_id, uid) ==
    LET fresh == project_id \notin DOMAIN M.ac
        uc0 == IF fresh THEN Put(M.uc, project_id, <<>>) ELSE M.uc
    IN  [ac |-> Put(M.ac, project_id,
                    IF fresh THEN <<ws>> ELSE Append(M.ac[project_id], ws)),
         cu |-> Put(M.cu, ws, [user_id |-> uid, username |-> Username(uid),
                               project_id |-> project_id]),
         raised |-> FALSE,
         uc |-> IF uid \in DOMAIN uc0[project_id] THEN uc0
                ELSE Put(uc0, project_id, Put(uc0[project_id], uid, InitCursor(uid)))]

\* connect's registration, lines 31-48
register(M, ws, project_id, uid) ==
    LET fresh == project_id \notin DOMAIN M.ac
        ac1 == Put(M.ac, project_id,
                   IF fresh THEN <<ws>> ELSE Append(M.ac[project_id], ws))
        uc0 == IF fresh THEN Put(M.uc, project_id, <<>>) ELSE M.uc
        cu1 == Put(M.cu, ws, [user_id |-> uid, username |-> Username(uid),
                              project_id |-> project_id])
    IN  IF project_id \notin DOMAIN uc0
        THEN [ac |-> ac1, cu |-> cu1, uc |-> uc0, raised |-> TRUE]
        ELSE [ac |-> ac1, cu |-> cu1, raised |-> FALSE,
              uc |-> Put(uc0, project_id, Put(uc0[project_id], uid, InitCursor(uid)))]

\* a bug: the user_joined broadcast excludes nobody
connect_tells_joiner(self, rq, tr, accepted) ==
    LET b == NoBc("join", NoFrame, FALSE, TRUE)
        M == register(Mgr, self, rq.project_id, rq.user)
    IN  IF ~accepted THEN Raise(self, Mgr, rq, b, <<>>, <<>>, tr)
        ELSE IF M.raised THEN Raise(self, M, rq, b, <<>>, <<>>, tr)
        ELSE broadcast_to_project(self, M, rq, b, tr, rq.project_id,
                 UserJoined(rq.user, M.uc[rq.project_id][rq.user]), None, "snapshot")

\* ConnectionManager.connect: the accept (the second on this transport, see
\* Open), the registration and the user_joined broadcast up to its first
\* send_text.  accepted: the transport lets a second accept through, or raises.
connect(self, rq, tr, accepted) ==
    LET b == NoBc("join", NoFrame, FALSE, TRUE)
        M == register(Mgr, self, rq.project_id, rq.user)
    IN  IF ~accepted THEN Raise(self, Mgr, rq, b, <<>>, <<>>, tr)
        ELSE IF M.raised THEN Raise(self, M, rq, b, <<>>, <<>>, tr)
        ELSE broadcast_to_project(self, M, rq, b, tr, rq.project_id,
                 UserJoined(rq.user, M.uc[rq.project_id][rq.user]), self, "snapshot")

\* websocket_endpoint from its start (lines 25-53) to the first send_text of
\* manager.connect.  Up to the accept inside connect the task touches no
\* state another task reads, so the suspension at that accept is not a
\* separate step.
Open(self, project_id, token, accepted) ==
    /\ pc[self] = "idle"
    /\ \A d \in Conns : d < self => pc[d] # "idle"
    /\ self = 1 => project_id = 1 /\ token # 2
    /\ UNCHANGED <<frames, lost>>
    /\ LET user == validate_websocket_token(token)
           rq == [project_id |-> project_id, user |-> user]
       IN  IF token = None \/ user = None
           THEN /\ accepted
                /\ accepts' = [accepts EXCEPT ![self] = 1]
                /\ Commit(self, Mgr, rq, NoBc("auth", NoFrame, FALSE, TRUE), <<>>,
                       <<[to |-> self,
                          env |-> Error(IF token = None
                                        THEN "Authentication token required"
                                        ELSE "Invalid authentication token", "")]>>,
                       "done", [transport EXCEPT ![self] = "closed"], "auth")
           ELSE /\ accepts' = [accepts EXCEPT ![self] = 2]
                /\ connect(self, rq, [transport EXCEPT ![self] = "open"], accepted)

\* a task resumes after a send_text of its broadcast
BcastStep(self) ==
    /\ pc[self] = "bcast"
    /\ UNCHANGED <<accepts, frames, lost>>
    /\ RunBroadcast(self, Mgr, req[self], bc[self], out[self], transport)

\* A reply to the sender alone (pong, error) in handle_websocket_message.
\* When the send raises, the except clause's own send raises too, out of the
\* receive loop.  What send_text raises on a transport that is gone is the
\* WebSocket library's choice: WebSocketDisconnect, which line 63 catches, or
\* another exception, which line 66 catches.
Reply(self, b, env) ==
    IF Stalled(transport, self)
    THEN Block(self, Mgr, req[self], b, <<>>, transport)
    ELSE IF CanSend(transport, self)
    THEN Commit(self, Mgr, req[self], b, <<>>, <<[to |-> self, env |-> env]>>,
                "recv", transport, "running")
    ELSE \/ Raise(self, Mgr, req[self], b, <<>>, <<>>, transport)
         \/ Commit(self, disconnect(Mgr, self), req[self], b, <<>>, <<>>,
                   "done", transport, "disconnect")

\* a handler returns without a broadcast
Return(self, b) ==
    Commit(self, Mgr, req[self], b, <<>>, <<>>, "recv", transport, "running")

\* a bug: the entry is replaced by the payload's fields, not updated
handle_cursor_update_replaces_entry(self, b, data) ==
    IF self \notin DOMAIN connection_users THEN Return(self, b)
    ELSE LET project_id == connection_users[self].project_id
             user_id == connection_users[self].user_id
         IN  IF project_id \in DOMAIN user_cursors
                /\ user_id \in DOMAIN user_cursors[project_id]
             THEN LET cursor == [x |-> IF data.x = None THEN 0 ELSE data.x,
                                 y |-> IF data.y = None THEN 0 ELSE data.y,
                                 timestamp |-> data.timestamp]
                      M == [Mgr EXCEPT !.uc = Put(@, project_id,
                                                  Put(@[project_id], user_id, cursor))]
                  IN  broadcast_to_project(self, M, req[self], b, transport, project_id,
                                           CursorUpdate(user_id, cursor), self, "recv")
             ELSE Return(self, b)

\* ConnectionManager.handle_cursor_update
handle_cursor_update(self, b, data) ==
    IF self \notin DOMAIN connection_users THEN Return(self, b)
    ELSE LET project_id == connection_users[self].project_id
             user_id == connection_users[self].user_id
         IN  IF project_id \in DOMAIN user_cursors
                /\ user_id \in DOMAIN user_cursors[project_id]
             THEN LET cursor == Update(user_cursors[project_id][user_id],
                                   [x |-> IF data.x = None THEN 0 ELSE data.x,
                                    y |-> IF data.y = None THEN 0 ELSE data.y,
                                    timestamp |-> data.timestamp])
                      M == [Mgr EXCEPT !.uc = Put(@, project_id,
                                                  Put(@[project_id], user_id, cursor))]
                  IN  broadcast_to_project(self, M, req[self], b, transport, project_id,
                                           CursorUpdate(user_id, cursor), self, "recv")
             ELSE Return(self, b)

\* a bug: no "if websocket not in self.connection_users"; the room and the
\* user are the ones the endpoint was called with
handle_timeline_update_unguarded(self, b, data) ==
    broadcast_to_project(self, Mgr, req[self], b, transport, req[self].project_id,
                         TimelineUpdate(req[self].user, data), self, "recv")

\* ConnectionManager.handle_timeline_update
handle_timeline_update(self, b, data) ==
    IF self \notin DOMAIN connection_users THEN Return(self, b)
    ELSE broadcast_to_project(self, Mgr, req[self], b, transport,
                              connection_users[self].project_id,
                              TimelineUpdate(connection_users[self].user_id, data),
                              self, "recv")

\* ConnectionManager.handle_chat_message
handle_chat_message(self, b, data) ==
    IF self \notin DOMAIN connection_users THEN Return(self, b)
    ELSE broadcast_to_project(self, Mgr, req[self], b, transport,
                              connection_users[self].project_id,
                              ChatMessage(connection_users[self].user_id,
                                          connection_users[self].username, data),
                              None, "recv")

\* the message types handle_websocket_message has a branch for
HandledTypes == {"cursor_update", "timeline_update", "chat_message", "ping"}

\* a bug: a message of any other type is relayed to the room
handle_websocket_message_relays_unknown(self, b, message) ==
    IF message.type = "cursor_update" THEN handle_cursor_update(self, b, message)
    ELSE IF message.type = "chat_message" THEN handle_chat_message(self, b, message)
    ELSE IF message.type = "ping" THEN Reply(self, b, Pong(message))
    ELSE handle_timeline_update(self, b, message)

\* handle_websocket_message
handle_websocket_message(self, b, message) ==
    IF message.type = "cursor_update" THEN handle_cursor_update(self, b, message)
    ELSE IF message.type = "timeline_update" THEN handle_timeline_update(self, b, message)
    ELSE IF message.type = "chat_message" THEN handle_chat_message(self, b, message)
    ELSE IF message.type = "ping" THEN Reply(self, b, Pong(message))
    ELSE Reply(self, b, Error("Unknown message type: ", message.type))

\* a bug: the receive loop starts the handler as a task of its own and does
\* not wait for it; the relay of a frame received while the relay of the one
\* before it is suspended in a send goes out at once
Recv_not_awaited(self, frame) ==
    /\ pc[self] \in {"recv", "bcast"}
    /\ transport[self] \in {"open", "lost", "stalled"}
    /\ frames' = frames + 1
    /\ UNCHANGED <<accepts, lost>>
    /\ IF pc[self] = "bcast"
       THEN /\ self \in DOMAIN connection_users
            /\ inbox' = [d \in DOMAIN inbox |->
                            IF d \in Range(IterList(Mgr, bc[self])) \ {self}
                            THEN Append(inbox[d],
                                     [from |-> self,
                                      env |-> TimelineUpdate(connection_users[self].user_id,
                                                             frame)])
                            ELSE inbox[d]]
            /\ last' = NoLast
            /\ UNCHANGED <<mgrvars, transport, pc, req, bc, out, exit, restvars>>
       ELSE LET b == NoBc("frame", frame, self \in DOMAIN connection_users,
                          transport[self] = "open")
            IN  IF frame.json # "object"
                THEN Raise(self, Mgr, req[self], b, <<>>, <<>>, transport)
                ELSE handle_websocket_message(self, b, frame)

\* One turn of the receive loop (lines 57-61): receive_text returns a frame,
\* json.loads, handle_websocket_message up to its first send_text.  A frame
\* the client sent before its transport was lost can still be received.
Recv(self, frame) ==
    /\ pc[self] = "recv"
    /\ transport[self] \in {"open", "lost", "stalled"}
    /\ frames' = frames + 1
    /\ UNCHANGED <<accepts, lost>>
    /\ LET b == NoBc("frame", frame, self \in DOMAIN connection_users,
                     transport[self] = "open")
       IN  IF frame.json # "object"
           THEN \* JSONDecodeError, or a list has no .get
                Raise(self, Mgr, req[self], b, <<>>, <<>>, transport)
           ELSE handle_websocket_message(self, b, frame)

\* receive_text raises WebSocketDisconnect (lines 63-64)
RecvDisconnect(self) ==
    /\ pc[self] = "recv"
    /\ transport[self] = "lost"
    /\ UNCHANGED <<accepts, frames, lost>>
    /\ LET b == NoBc("leave", NoFrame, self \in DOMAIN connection_users, FALSE)
           M == disconnect(Mgr, self)
       IN  IF M.raised THEN Raise(self, M, req[self], b, <<>>, <<>>, transport)
           ELSE Commit(self, M, req[self], b, <<>>, <<>>, "done", transport, "disconnect")

\* the client goes away: from now on sends to it raise
TransportLost(self) ==
    /\ transport[self] = "open"
    /\ pc[self] # "done"
    /\ lost < MaxLost
    /\ lost' = lost + 1
    /\ transport' = [transport EXCEPT ![self] = "lost"]
    /\ last' = NoLast
    /\ UNCHANGED <<mgrvars, accepts, pc, req, bc, out, exit, frames, inbox, restvars>>

\* the client stops reading: from now on a send to it does not complete
TransportStall(self) ==
    /\ transport[self] = "open"
    /\ pc[self] # "done"
    /\ \A d \in Conns : transport[d] # "stalled"
    /\ transport' = [transport EXCEPT ![self] = "stalled"]
    /\ last' = NoLast
    /\ UNCHANGED <<mgrvars, accepts, pc, req, bc, out, exit, frames, lost, inbox, restvars>>

Next ==
    \/ \E c \in Conns, p \in Rooms, t \in Tokens, a \in BOOLEAN : Open(c, p, t, a)
    \/ \E c \in Conns : BcastStep(c)
    \/ \E c \in Conns, f \in Frames : frames < MaxFrames /\ Recv(c, f)
    \/ \E c \in Conns : RecvDisconnect(c)
    \/ \E c \in Conns : TransportLost(c)

Spec == Init /\ [][Next]_vars

\* ------------------------------------------------- concurrent joins alone
\* Connections of any of the three users open, on either room, and nothing
\* else happens: no client goes away and none sends a frame.
NextJoin ==
    \/ \E c \in Conns, p \in Rooms, t \in Accounts, a \in BOOLEAN : Open(c, p, t, a)
    \/ \E c \in Conns : BcastStep(c)

JoinSpec == Init /\ [][NextJoin]_vars

\* ------------------------------------------------- a client stops reading
\* frames that are relayed to the room, or answered to the sender
StallFrames ==
    { [Frame("chat_message") EXCEPT !.message = "hi"],
      Frame("timeline_update"),
      [Frame("ping") EXCEPT !.timestamp = 42] }

\* Users join room 1, send a frame, and one client stops reading.
NextStall ==
    \/ \E c \in Conns, t \in Users : Open(c, 1, t, TRUE)
    \/ \E c \in Conns : BcastStep(c)
    \/ \E c \in Conns, f \in StallFrames : frames < MaxFrames /\ Recv(c, f)
    \/ \E c \in Conns : TransportStall(c)

\* The event loop resumes a task once the send_text it awaits has returned
\* or raised.
StallSpec ==
    /\ Init
    /\ [][NextStall]_vars
    /\ \A c \in Conns : WF_vars(BcastStep(c))

\* ------------------------------------------- identity fields in payloads
\* relayed frames without identity fields, and with those of either user
IdentityFrames ==
    { [f EXCEPT !.user_id = u, !.username = IF u = None THEN "" ELSE Username(u)] :
          f \in { [Frame("cursor_update") EXCEPT !.x = 10, !.y = 20],
                  Frame("timeline_update"),
                  [Frame("chat_message") EXCEPT !.message = "hi"] },
          u \in {None} \cup Users }

\* Users join room 1 and send a frame; no client goes away.
NextIdentity ==
    \/ \E c \in Conns, t \in Users : Open(c, 1, t, TRUE)
    \/ \E c \in Conns : BcastStep(c)
    \/ \E c \in Conns, f \in IdentityFrames : frames < MaxFrames /\ Recv(c, f)

IdentitySpec == Init /\ [][NextIdentity]_vars

\* --------------------------------------------------- colours of many users
\* the websockets of ColorSpec, each standing for one connection after another
ColorConns == {1, 2}

\* connect's registration (lines 31-48) for a user of any id
ColorJoin(ws, project_id, user_id) ==
    /\ ws \notin DOMAIN connection_users
    /\ LET M == register(Mgr, ws, project_id, user_id)
       IN  /\ active_connections' = M.ac
           /\ connection_users' = M.cu
           /\ user_cursors' = M.uc
    /\ UNCHANGED <<transport, accepts, pc, req, bc, out, exit, frames, lost, last, inbox,
                   restvars>>

\* ConnectionManager.disconnect
ColorLeave(ws) ==
    /\ ws \in DOMAIN connection_users
    /\ LET M == disconnect(Mgr, ws)
       IN  /\ active_connections' = M.ac
           /\ connection_users' = M.cu
           /\ user_cursors' = M.uc
    /\ UNCHANGED <<transport, accepts, pc, req, bc, out, exit, frames, lost, last, inbox,
                   restvars>>

NextColor ==
    \/ \E ws \in ColorConns, p \in Rooms, u \in 1..MaxUserId : ColorJoin(ws, p, u)
    \/ \E ws \in ColorConns : ColorLeave(ws)

ColorSpec == Init /\ [][NextColor]_vars

\* ---------------------------------------- several frames of one connection
\* every client's inbox is recorded
InitOrder == Start /\ inbox = [c \in Conns |-> <<>>]

\* the frames whose relay carries the frame's timestamp
OrderFrames ==
    { [Frame("cursor_update") EXCEPT !.x = 10, !.y = 20],
      Frame("timeline_update"),
      [Frame("chat_message") EXCEPT !.message = "hi"] }

\* Users join room 1 and send frames, each stamped by its client with its
\* number in the order of arrival; no client goes away.
NextOrder ==
    \/ \E c \in Conns, t \in Users : Open(c, 1, t, TRUE)
    \/ \E c \in Conns : BcastStep(c)
    \/ \E c \in Conns, f \in OrderFrames :
           frames < MaxOrderFrames /\ Recv(c, [f EXCEPT !.timestamp = frames + 1])

OrderSpec == InitOrder /\ [][NextOrder]_vars

\* ====================================================== the REST endpoints
\* the rows of query(ProjectMember).filter(project_id == .., user_id == ..)
MemberRows(D, project_id, user_id) ==
    {row \in BagToSet(D.project_members) :
        row.project_id = project_id /\ row.user_id = user_id}

\* db.add(row); db.commit() on project_members
AddRow(members, row) == members (+) SetToBag({row})

\* the rows of a deleted project, their project_id blanked
Blank(members, project_id) ==
    LET blank(row) == IF row.project_id = project_id
                      THEN [row EXCEPT !.project_id = None] ELSE row
    IN  [row \in {blank(r) : r \in BagToSet(members)} |->
            IF row.project_id = None
            THEN CopiesIn(row, members)
                 + CopiesIn([row EXCEPT !.project_id = project_id], members)
            ELSE CopiesIn(row, members)]

\* the None that .first() returns for a query of ProjectMember without rows
NoMember == [project_id |-> None, user_id |-> None, role |-> "none"]

\* Query.first() of a query without order_by: one of the rows, whichever the
\* database returns first, or None
First(rows) == IF rows = {} THEN {NoMember} ELSE rows

\* what a request leaves: the database, and the response's status and detail
Result(D, status, detail) == [db |-> D, status |-> status, detail |-> detail]

\* "not member or member.role not in ['owner', 'editor']"
NotEditor(member) == member = NoMember \/ member.role \notin {"owner", "editor"}

\* projects.py, create_project: the project row, then the creator's
\* membership with role "owner"
create_project(D, current_user) ==
    LET id == D.project_seq + 1
    IN  Result([D EXCEPT !.projects = Put(@, id, [owner_id |-> current_user]),
                         !.project_seq = id,
                         !.project_members =
                             AddRow(@, [project_id |-> id, user_id |-> current_user,
                                        role |-> "owner"])],
               201, "")

\* a bug: the role of the requester is not looked at
delete_project_by_any_member(D, project_id, current_user, member, committed) ==
    IF member = NoMember
    THEN Result(D, 403, "Only project owner can delete project")
    ELSE IF project_id \notin DOMAIN D.projects THEN Result(D, 404, "Project not found")
    ELSE Result([D EXCEPT !.projects = DropKey(@, project_id)], 204, "")

\* projects.py, delete_project.  member: the row .first() returned.
\* db.delete(project) of a Project whose relationships have no delete
\* cascade blanks the project_id of the rows that reference it (members,
\* timeline_clips) in the same flush; those columns are nullable=False, and
\* whether the database takes the update is outside the source: committed
\* says the commit went through, otherwise it raised and nothing changed.
delete_project(D, project_id, current_user, member, committed) ==
    IF member = NoMember \/ member.role # "owner"
    THEN Result(D, 403, "Only project owner can delete project")
    ELSE IF project_id \notin DOMAIN D.projects THEN Result(D, 404, "Project not found")
    ELSE IF ~committed THEN Result(D, 500, "")
    ELSE Result([D EXCEPT
                   !.projects = DropKey(@, project_id),
                   !.project_members = Blank(@, project_id),
                   !.timeline_clips =
                       [c \in DOMAIN D.timeline_clips |->
                           IF D.timeline_clips[c].project_id = project_id
                           THEN [D.timeline_clips[c] EXCEPT !.project_id = None]
                           ELSE D.timeline_clips[c]]],
                204, "")

\* a bug: no check that the user is already a member
add_project_member_unchecked(D, project_id, user_id, role, current_user, member, existing_member) ==
    IF NotEditor(member)
    THEN Result(D, 403, "Insufficient permissions to manage project members")
    ELSE Result([D EXCEPT !.project_members =
                     AddRow(@, [project_id |-> project_id, user_id |-> user_id,
                                role |-> role])],
                200, "Member added successfully")

\* projects.py, add_project_member.  member, existing_member: the rows the
\* two .first() returned.
add_project_member(D, project_id, user_id, role, current_user, member, existing_member) ==
    IF NotEditor(member)
    THEN Result(D, 403, "Insufficient permissions to manage project members")
    ELSE IF existing_member # NoMember
    THEN Result(D, 400, "User is already a project member")
    ELSE Result([D EXCEPT !.project_members =
                     AddRow(@, [project_id |-> project_id, user_id |-> user_id,
                                role |-> role])],
                200, "Member added successfully")

\* timeline.py, create_timeline_clip
create_timeline_clip(D, project_id, start_time, current_user, member) ==
    IF NotEditor(member)
    THEN Result(D, 403, "Insufficient permissions to edit timeline")
    ELSE Result([D EXCEPT !.timeline_clips =
                     Put(@, D.clip_seq + 1,
                         [project_id |-> project_id, start_time |-> start_time]),
                          !.clip_seq = @ + 1],
                201, "")

\* the loop without "TimelineClip.project_id == project_id" in its query
RenumberById(clips, clip_order) ==
    LET ReorderFrom[i \in 0..Len(clip_order)] ==
            IF i = 0 THEN clips
            ELSE LET before == ReorderFrom[i - 1]
                     clip_id == clip_order[i]
                 IN  IF clip_id \in DOMAIN before
                     THEN Put(before, clip_id, [before[clip_id] EXCEPT !.start_time = i - 1])
                     ELSE before
    IN  ReorderFrom[Len(clip_order)]

\* timeline.py lines 207-215, "for index, clip_id in enumerate(clip_order)"
\* from index on: a clip with this id in this project gets start_time
\* index * 1.0, any other id is passed over
RECURSIVE ReorderLoop(_, _, _, _)
ReorderLoop(clips, project_id, clip_order, index) ==
    IF index >= Len(clip_order) THEN clips
    ELSE LET clip_id == clip_order[index + 1]
         IN  ReorderLoop(IF clip_id \in DOMAIN clips /\ clips[clip_id].project_id = project_id
                         THEN Put(clips, clip_id,
                                  [clips[clip_id] EXCEPT !.start_time = index])
                         ELSE clips,
                         project_id, clip_order, index + 1)

\* a bug: the clip is looked up by its id alone, whatever project it is in
reorder_timeline_clips_any_project(D, project_id, clip_order, current_user, member) ==
    IF NotEditor(member)
    THEN Result(D, 403, "Insufficient permissions to edit timeline")
    ELSE Result([D EXCEPT !.timeline_clips = RenumberById(@, clip_order)],
                200, "Timeline reordered successfully")

\* timeline.py, reorder_timeline_clips
reorder_timeline_clips(D, project_id, clip_order, current_user, member) ==
    IF NotEditor(member)
    THEN Result(D, 403, "Insufficient permissions to edit timeline")
    ELSE Result([D EXCEPT !.timeline_clips = ReorderLoop(@, project_id, clip_order, 0)],
                200, "Timeline reordered successfully")

\* chat.py, create_chat_message
create_chat_message(D, project_id, current_user, member) ==
    IF member = NoMember THEN Result(D, 404, "Project not found or access denied")
    ELSE Result([D EXCEPT !.chat_messages =
                     Put(@, D.message_seq + 1,
                         [project_id |-> project_id, user_id |-> current_user]),
                          !.message_seq = @ + 1],
                201, "")

\* a bug: an editor may delete any message of the project
can_delete_editor_too(message, member, project, current_user) ==
    \/ message.user_id = current_user
    \/ member.role \in {"owner", "editor"}

\* chat.py lines 140-144; project is the message's project row (when "or"
\* and "and" get as far as project.owner_id there is one)
can_delete(message, member, project, current_user) ==
    \/ message.user_id = current_user
    \/ member.role = "owner"
    \/ (member.role = "editor" /\ project.owner_id = current_user)

\* chat.py, delete_chat_message.  member: the row .first() returned for the
\* message's project, None when there is no message.
delete_chat_message(D, message_id, current_user, member) ==
    LET message == D.chat_messages[message_id]
    IN  IF message_id \notin DOMAIN D.chat_messages
        THEN Result(D, 404, "Chat message not found")
        ELSE IF member = NoMember THEN Result(D, 404, "Access denied to chat message")
        ELSE IF /\ message.user_id # current_user
                /\ member.role = "editor"
                /\ message.project_id \notin DOMAIN D.projects
        THEN \* project is None, and project.owner_id raises AttributeError
             Result(D, 500, "")
        ELSE IF ~can_delete(message, member,
                            IF message.project_id \in DOMAIN D.projects
                            THEN D.projects[message.project_id]
                            ELSE [owner_id |-> None],
                            current_user)
        THEN Result(D, 403, "Insufficient permissions to delete message")
        ELSE Result([D EXCEPT !.chat_messages = DropKey(@, message_id)], 204, "")

\* ------------------------------------------------------------- requests
\* a request is handled: the database it leaves and its response
Request(op, user, id, arg, r) ==
    /\ db' = r.db
    /\ resp' = Response(op, user, id, arg, r.status, r.detail)
    /\ UNCHANGED hubvars

CreateProject(current_user) ==
    Request("create_project", current_user, db.project_seq + 1, None,
            create_project(db, current_user))

AddProjectMember(project_id, user_id, role, current_user) ==
    \E member \in First(MemberRows(db, project_id, current_user)),
       existing_member \in First(MemberRows(db, project_id, user_id)) :
        Request("add_project_member", current_user, project_id, user_id,
                add_project_member(db, project_id, user_id, role, current_user, member,
                                   existing_member))

DeleteProject(project_id, current_user) ==
    \E member \in First(MemberRows(db, project_id, current_user)), committed \in BOOLEAN :
        Request("delete_project", current_user, project_id, None,
                delete_project(db, project_id, current_user, member, committed))

CreateTimelineClip(project_id, start_time, current_user) ==
    \E member \in First(MemberRows(db, project_id, current_user)) :
        Request("create_timeline_clip", current_user, project_id, start_time,
                create_timeline_clip(db, project_id, start_time, current_user, member))

ReorderTimelineClips(project_id, clip_order, current_user) ==
    \E member \in First(MemberRows(db, project_id, current_user)) :
        Request("reorder_timeline_clips", current_user, project_id, clip_order,
                reorder_timeline_clips(db, project_id, clip_order, current_user, member))

CreateChatMessage(project_id, current_user) ==
    \E member \in First(MemberRows(db, project_id, current_user)) :
        Request("create_chat_message", current_user, project_id, None,
                create_chat_message(db, project_id, current_user, member))

DeleteChatMessage(message_id, current_user) ==
    \E member \in IF message_id \notin DOMAIN db.chat_messages THEN {NoMember}
                  ELSE First(MemberRows(db, db.chat_messages[message_id].project_id,
                                        current_user)) :
            Request("delete_chat_message", current_user, message_id, None,
                    delete_chat_message(db, message_id, current_user, member))

\* the project ids requests name: those of the projects a run creates
ProjectIds == 1..MaxProjects

\* Users are interchangeable: the first project is taken to be created by
\* user 1.  A run creates MaxProjects projects at most.
FirstByUserOne(u) ==
    /\ db.project_seq < MaxProjects
    /\ db.project_seq = 0 => u = 1

\* --------------------------------------------------- projects and members
NextProject ==
    \/ \E u \in Accounts : FirstByUserOne(u) /\ CreateProject(u)
    \/ \E p \in ProjectIds, u \in Accounts, role \in Roles, cu \in Accounts :
           AddProjectMember(p, u, role, cu)
    \/ \E p \in ProjectIds, cu \in Accounts : DeleteProject(p, cu)

ProjectSpec == Init /\ [][NextProject]_vars

\* ------------------------------------------------------------ the timeline
\* the start_time a clip is created with: not the index of any list item
ClipStart == 7

\* the lists of clip ids a reorder request submits: of the clips a run
\* creates and of one id more, which no clip has
ClipOrders ==
    UNION {[1..n -> 1..(MaxClips + 1)] : n \in 0..MaxClips}

\* Users 1 and 2 create projects, add each other as editor or viewer, create
\* clips and reorder them.
NextTimeline ==
    \/ \E u \in Users : FirstByUserOne(u) /\ CreateProject(u)
    \/ \E p \in ProjectIds, u \in Users, role \in {"editor", "viewer"}, cu \in Users :
           AddProjectMember(p, u, role, cu)
    \/ \E p \in ProjectIds, cu \in Users :
           db.clip_seq < MaxClips /\ CreateTimelineClip(p, ClipStart, cu)
    \/ \E p \in ProjectIds, order \in ClipOrders, cu \in Users :
           ReorderTimelineClips(p, order, cu)

TimelineSpec == Init /\ [][NextTimeline]_vars

\* ---------------------------------------------------------- chat messages
\* Users 1 and 2 create projects, add each other with any role, write
\* messages and delete them, and delete projects.
NextChat ==
    \/ \E u \in Users : FirstByUserOne(u) /\ CreateProject(u)
    \/ \E p \in ProjectIds, u \in Users, role \in Roles, cu \in Users :
           AddProjectMember(p, u, role, cu)
    \/ \E p \in ProjectIds, cu \in Users :
           db.message_seq < MaxMessages /\ CreateChatMessage(p, cu)
    \/ \E m \in 1..(MaxMessages + 1), cu \in Users : DeleteChatMessage(m, cu)
    \/ \E p \in ProjectIds, cu \in Users : DeleteProject(p, cu)

ChatSpec == Init /\ [][NextChat]_vars

\* ================================================================ claims
\* the connections registered in room r, bound to user u
Registered(r) ==
    {c \in DOMAIN connection_users :
        /\ connection_users[c].project_id = r
        /\ r \in DOMAIN active_connections
        /\ c \in Range(active_connections[r])}

RegisteredAs(r, u) == {c \in Registered(r) : connection_users[c].user_id = u}

HasPresence(r, u) == r \in DOMAIN user_cursors /\ u \in DOMAIN user_cursors[r]

\* the connections the completed handler delivered an envelope of this type to
DeliveredTo(type) ==
    {last.delivered[i].to :
        i \in {j \in DOMAIN last.delivered : last.delivered[j].env.type = type}}

\* the number of envelopes of this type it delivered to d
TimesDelivered(type, d) ==
    Cardinality({j \in DOMAIN last.delivered :
                    last.delivered[j].env.type = type /\ last.delivered[j].to = d})

\* the number of envelopes of this type that the deliveries o have for d
TimesIn(o, type, d) ==
    Cardinality({j \in DOMAIN o : o[j].env.type = type /\ o[j].to = d})

\* C1: in every reachable state a room's presence map has an entry for a
\* participant if and only if a connection bound to that participant is
\* registered in the room.
C1_PresenceIffConnection ==
    \A r \in Rooms, u \in Users : HasPresence(r, u) <=> RegisteredAs(r, u) # {}

\* C2: once websocket_endpoint has ended for a connection, whatever ended its
\* receive loop, the connection is no longer registered.
C2_LeaveAfterLoopEnds ==
    \A c \in Conns : pc[c] = "done" => c \notin DOMAIN connection_users

\* C3: the presence snapshot delivered to a joining connection lists exactly
\* the participants that have a registered connection in the room, the
\* joiner among them.
C3_SnapshotComplete ==
    \A i \in DOMAIN last.delivered :
        last.kind = "join" /\ last.delivered[i].env.type = "project_state" =>
            /\ last.user \in DOMAIN last.delivered[i].env.active_users
            /\ DOMAIN last.delivered[i].env.active_users =
                   {u \in Users : RegisteredAs(last.project_id, u) # {}}

\* C4: a cursor_update from a registered connection is delivered, once, to
\* every other connection registered in its room, to no connection of
\* another room and not to the sender (for a broadcast during which no other
\* task changed the room's list; a recipient whose transport is gone cannot
\* be delivered to).
C4_CursorUpdateReachesRoom ==
    (/\ last.kind = "frame"
     /\ last.frame.type = "cursor_update"
     /\ last.registered
     /\ last.stable) =>
        /\ \A d \in Registered(last.project_id) \ {last.task} :
              transport[d] = "open" => TimesDelivered("cursor_update", d) = 1
        /\ \A i \in DOMAIN last.delivered :
              /\ last.delivered[i].to # last.task
              /\ last.delivered[i].to \in Range(last.members)

\* C5: in every reachable state every room of the registry has a non-empty
\* connection list.
C5_NoEmptyRoom ==
    \A r \in DOMAIN active_connections : active_connections[r] # <<>>

\* a leave emptied its room and the room is gone
C5_Witness ==
    /\ last.kind = "leave"
    /\ last.registered
    /\ last.project_id \notin DOMAIN active_connections

\* C6: a step that unregisters the only connection of participant P in room R
\* leaves R's presence map without an entry for P; when it was the last
\* connection of R, R is a key of neither active_connections nor user_cursors.
C6_LeaveRemovesPresenceAndRoom ==
    [][\A c \in DOMAIN connection_users :
          c \notin DOMAIN connection_users' =>
              LET r == connection_users[c].project_id
                  u == connection_users[c].user_id
              IN  /\ RegisteredAs(r, u) = {c} =>
                        ~(r \in DOMAIN user_cursors' /\ u \in DOMAIN user_cursors'[r])
                  /\ Registered(r) = {c} =>
                        /\ r \notin DOMAIN active_connections'
                        /\ r \notin DOMAIN user_cursors']_vars

\* the only connection of a participant has left a room that others stay in
C6_Witness ==
    /\ last.kind = "leave"
    /\ last.registered
    /\ last.project_id \in DOMAIN active_connections
    /\ RegisteredAs(last.project_id, last.user) = {}
    /\ ~HasPresence(last.project_id, last.user)

\* C7: disconnect for a connection that is not registered raises nothing and
\* changes none of active_connections, connection_users, user_cursors.
C7_LeaveIdempotent ==
    [][\A c \in Conns :
          (/\ pc[c] = "recv"
           /\ last'.kind = "leave"
           /\ last'.task = c
           /\ c \notin DOMAIN connection_users) =>
              /\ exit'[c] = "disconnect"
              /\ mgrvars' = mgrvars]_vars

\* a connection that a broadcast's cleanup had unregistered has run its own
\* disconnect
C7_Witness ==
    /\ last.kind = "leave"
    /\ ~last.registered
    /\ exit[last.task] = "disconnect"

C9_UserLeftAnnounced ==
    \A d \in Registered(last.project_id) :
        transport[d] = "open" =>
            /\ (last.kind = "leave" /\ last.registered) =>
                  \E i \in DOMAIN last.delivered :
                      /\ last.delivered[i].to = d
                      /\ last.delivered[i].env.type = "user_left"
                      /\ last.delivered[i].env.user_id = last.user
            /\ last.failed # <<>> => d \in DeliveredTo("user_left")

\* C10: after a registered connection with an open transport sent a frame
\* that is not a JSON object, the connection is open and registered, its
\* task is back in the receive loop, and the one envelope sent is an error
\* to the sender.
C10_MalformedFrameNotFatal ==
    (/\ last.kind = "frame"
     /\ last.frame.json # "object"
     /\ last.registered
     /\ last.wasopen) =>
        /\ pc[last.task] = "recv"
        /\ transport[last.task] = "open"
        /\ last.task \in DOMAIN connection_users
        /\ Len(last.delivered) = 1
        /\ last.delivered[1].to = last.task
        /\ last.delivered[1].env.type = "error"

\* C11: a frame whose type handle_websocket_message has no branch for, from a
\* registered connection with an open transport, sends one envelope, an
\* error naming the type, to the sender; it changes none of
\* active_connections, connection_users, user_cursors, and the connection
\* stays open, registered and in its receive loop.
C11_UnknownTypeErrorOnly ==
    [][(/\ last'.kind = "frame"
        /\ last'.frame.json = "object"
        /\ last'.frame.type \notin HandledTypes
        /\ last'.registered
        /\ last'.wasopen) =>
           /\ last'.delivered =
                  <<[to |-> last'.task,
                     env |-> Error("Unknown message type: ", last'.frame.type)]>>
           /\ mgrvars' = mgrvars
           /\ pc'[last'.task] = "recv"
           /\ transport'[last'.task] = "open"
           /\ last'.task \in DOMAIN connection_users']_vars

\* a frame of an unknown type was answered while another connection was
\* registered in the sender's room
C11_Witness ==
    /\ last.kind = "frame"
    /\ last.frame.type = "bogus"
    /\ last.registered
    /\ last.wasopen
    /\ DeliveredTo("error") = {last.task}
    /\ Registered(last.project_id) \ {last.task} # {}

C13_NoSkipNoDuplicate ==
    last.active =>
        /\ \A d \in (Range(last.start) \cap Range(last.members)) \ {last.exclude} :
              (transport[d] = "open" /\ d \notin Range(last.failed)) =>
                  TimesDelivered(last.msg.type, d) = 1
        /\ \A d \in Conns : TimesDelivered(last.msg.type, d) <= 1

\* C16: a ping on an open transport sends one envelope, a pong with the
\* ping's timestamp, to the sender, and changes none of active_connections,
\* connection_users, user_cursors.
C16_PingPong ==
    [][(/\ last'.kind = "frame"
        /\ last'.frame.json = "object"
        /\ last'.frame.type = "ping"
        /\ last'.wasopen) =>
           /\ last'.delivered =
                  <<[to |-> last'.task,
                     env |-> [type |-> "pong", timestamp |-> last'.frame.timestamp]]>>
           /\ mgrvars' = mgrvars]_vars

\* a ping stamped 42 was answered while another connection was registered in
\* the sender's room
C16_Witness ==
    /\ last.kind = "frame"
    /\ last.frame.type = "ping"
    /\ last.frame.timestamp = 42
    /\ last.wasopen
    /\ DeliveredTo("pong") = {last.task}
    /\ Registered(last.project_id) \ {last.task} # {}

\* C17: every registered connection is bound to a user that token validation
\* resolved; the step that turns a connection away for its token sends it one
\* error envelope, closes it and changes none of active_connections,
\* connection_users, user_cursors; such a connection is never registered.
C17_RejectedNeverRegistered ==
    [][/\ \A c \in DOMAIN connection_users' :
             connection_users'[c].user_id \in Accounts
       /\ \A c \in Conns :
             /\ (pc[c] = "idle" /\ exit'[c] = "auth") =>
                   /\ last'.user = None
                   /\ Len(last'.delivered) = 1
                   /\ last'.delivered[1].to = c
                   /\ last'.delivered[1].env.type = "error"
                   /\ transport'[c] = "closed"
                   /\ pc'[c] = "done"
                   /\ mgrvars' = mgrvars
             /\ exit[c] = "auth" => c \notin DOMAIN connection_users']_vars

\* a connection with a token that validation rejects was turned away from a
\* room in which another connection is registered
C17_Witness ==
    /\ last.kind = "auth"
    /\ last.delivered = <<[to |-> last.task,
                           env |-> Error("Invalid authentication token", "")]>>
    /\ Registered(last.project_id) # {}
    /\ last.task \notin DOMAIN connection_users

\* C19: when connect's send_personal_message could not deliver the
\* project_state, the connection is unregistered (marked for removal), and
\* the value the call returned differs from the one a delivery returns.
C19_SendOneReportsFailure ==
    (/\ last.kind = "join"
     /\ ~last.raised
     /\ pc[last.task] = "recv"
     /\ last.task \notin DeliveredTo("project_state")) =>
        /\ last.task \notin DOMAIN connection_users
        /\ send_personal_message(transport, last.task, ProjectState(<<>>), <<>>).returned
             # send_personal_message([transport EXCEPT ![last.task] = "open"],
                                     last.task, ProjectState(<<>>), <<>>).returned

\* C20: a document_update from a registered connection is delivered, once, to
\* every other connection registered in its room and to nothing else (for a
\* broadcast during which no other task changed the room's list; a recipient
\* whose transport is gone cannot be delivered to).
C20_DocumentUpdateRelayed ==
    (/\ last.kind = "frame"
     /\ last.frame.type = "document_update"
     /\ last.registered
     /\ last.wasopen
     /\ last.stable) =>
        /\ \A d \in Registered(last.project_id) \ {last.task} :
              transport[d] = "open" => TimesDelivered("document_update", d) = 1
        /\ \A i \in DOMAIN last.delivered :
              /\ last.delivered[i].to # last.task
              /\ last.delivered[i].to \in Registered(last.project_id)

\* the connections that have entered manager.connect for room r and not
\* failed in it
Joiners(r) == {c \in Conns : pc[c] # "idle" /\ req[c].project_id = r}

\* C14: when every connection that joined room r has completed connect, and
\* they are bound to distinct users, r's list holds exactly these
\* connections, each once, and r's cursor dict has exactly their users as
\* keys, however their connects were interleaved.
C14_ConcurrentJoinsAllCounted ==
    \A r \in Rooms :
        (/\ Joiners(r) # {}
         /\ \A c \in Joiners(r) : pc[c] = "recv"
         /\ \A c, d \in Joiners(r) : c # d => req[c].user # req[d].user) =>
            /\ r \in DOMAIN active_connections
            /\ Len(active_connections[r]) = Cardinality(Joiners(r))
            /\ Range(active_connections[r]) = Joiners(r)
            /\ r \in DOMAIN user_cursors
            /\ DOMAIN user_cursors[r] = {req[c].user : c \in Joiners(r)}
            /\ Cardinality(DOMAIN user_cursors[r]) = Cardinality(Joiners(r))

\* three connections of three users have joined one room, and the second to
\* open completed its connect last, after the third had registered
C14_Witness ==
    /\ \A c \in Conns : pc[c] = "recv" /\ req[c].project_id = 1
    /\ Cardinality({req[c].user : c \in Conns}) = 3
    /\ last.kind = "join"
    /\ last.task = 2
    /\ Len(active_connections[1]) = 3
    /\ Cardinality(DOMAIN user_cursors[1]) = 3

\* the envelope types that relay an inbound frame
RelayTypes == {"cursor_update", "timeline_update", "chat_message"}

\* the timestamp of the frame that a relay envelope carries
Stamp(env) ==
    IF env.type = "cursor_update" THEN env.cursor.timestamp
    ELSE IF env.type = "timeline_update" THEN env.data.timestamp
    ELSE env.timestamp

\* C15: of two relays that one client has received from the same connection,
\* the one received first relays the frame that the server received first.
C15_SenderOrderKept ==
    \A d \in DOMAIN inbox :
        \A i, j \in DOMAIN inbox[d] :
            (/\ i < j
             /\ inbox[d][i].from = inbox[d][j].from
             /\ inbox[d][i].env.type \in RelayTypes
             /\ inbox[d][j].env.type \in RelayTypes) =>
                Stamp(inbox[d][i].env) < Stamp(inbox[d][j].env)

\* a client has received the relays of two frames of another connection
C15_Witness ==
    \E d \in DOMAIN inbox :
        \E i, j \in DOMAIN inbox[d] :
            /\ i < j
            /\ inbox[d][i].from = inbox[d][j].from
            /\ inbox[d][i].from # d
            /\ inbox[d][i].env.type \in RelayTypes
            /\ inbox[d][j].env.type \in RelayTypes
            /\ Stamp(inbox[d][i].env) = 1
            /\ Stamp(inbox[d][j].env) = 2

\* C18: a task suspended in a send of a broadcast leaves it in the end, and a
\* client that has stopped reading is unregistered in the end.
C18_StalledRecipientDropped ==
    /\ \A c \in Conns : (pc[c] \in Suspended) ~> (pc[c] \notin Suspended)
    /\ \A d \in Conns :
          (transport[d] = "stalled" /\ d \in DOMAIN connection_users)
              ~> (d \notin DOMAIN connection_users)

Acted(c) ==
    \/ pc'[c] # pc[c]
    \/ out'[c] # out[c]
    \/ bc'[c].idx # bc[c].idx
    \/ last'.task = c

ActorRoom(c) == IF pc[c] = "idle" THEN req'[c].project_id ELSE req[c].project_id

\* C23: a step of the handler of a frame from a connection of user P leaves
\* the cursor entry of every other user Q, in every room, as it was, unless
\* the step unregisters Q's last connection in that room.
C23_OnlyOwnPresence ==
    [][\A c \in Conns :
          (/\ Acted(c)
           /\ pc[c] \in {"recv", "bcast"}
           /\ (IF pc[c] = "bcast" THEN bc[c].kind = "frame"
               ELSE bc'[c].kind = "frame" \/ last'.kind = "frame")) =>
              \A r \in Rooms, q \in Accounts \ {req[c].user} :
                  HasPresence(r, q) =>
                      \/ HasPresence(r, q)' /\ user_cursors'[r][q] = user_cursors[r][q]
                      \/ RegisteredAs(r, q)' = {}]_vars

\* C24: every connection of connection_users is once in the list of the room
\* its entry names and in no other room's list, and every connection in a
\* room's list has an entry that names the room.
C24_OneRoomPerConnection ==
    /\ \A c \in DOMAIN connection_users :
          /\ connection_users[c].project_id \in DOMAIN active_connections
          /\ \A r \in DOMAIN active_connections :
                Cardinality({i \in DOMAIN active_connections[r] :
                                active_connections[r][i] = c})
                    = IF r = connection_users[c].project_id THEN 1 ELSE 0
    /\ \A r \in DOMAIN active_connections :
          \A c \in Range(active_connections[r]) :
              c \in DOMAIN connection_users /\ connection_users[c].project_id = r

\* both rooms hold connections, and a connection has been unregistered
C24_Witness ==
    /\ DOMAIN active_connections = Rooms
    /\ \E c \in Conns : exit[c] = "disconnect" /\ c \notin DOMAIN connection_users
    /\ Cardinality(DOMAIN connection_users) = 2

\* what the manager holds for room r
RoomState(r) ==
    <<IF r \in DOMAIN active_connections THEN <<active_connections[r]>> ELSE <<>>,
      IF r \in DOMAIN user_cursors THEN <<user_cursors[r]>> ELSE <<>>,
      {<<c, connection_users[c]>> :
          c \in {d \in DOMAIN connection_users : connection_users[d].project_id = r}}>>

\* C25: a step changes the list, the cursor dict and the connection_users
\* entries of no room other than the room of the task that takes it.
C25_FailureScopedToRoom ==
    [][\A r \in Rooms :
          RoomState(r)' # RoomState(r) =>
              \E c \in Conns : Acted(c) /\ ActorRoom(c) = r]_vars

\* the cleanup after a broadcast in room 1 has unregistered a connection
\* while connections are registered in room 2
C25_Witness ==
    /\ last.active
    /\ last.project_id = 1
    /\ last.failed # <<>>
    /\ \A f \in Range(last.failed) : f \notin DOMAIN connection_users
    /\ Registered(2) # {}

\* C27: a connection that is in connect, before its project_state has been
\* sent, has been delivered no envelope by another task's broadcast.
C27_NothingBeforeSnapshot ==
    \A c \in Conns :
        \A i \in DOMAIN out[c] :
            LET d == out[c][i].to
            IN  ~(d # c /\ pc[d] = "bcast" /\ bc[d].kind = "join")

\* C28: a cursor_update received from a registered connection reaches the
\* broadcast, and the sender's cursor entry holds the frame's position.
C28_CursorUpdateNeverDropped ==
    (/\ last.kind = "frame"
     /\ last.frame.type = "cursor_update"
     /\ last.registered) =>
        /\ last.active
        /\ last.msg.type = "cursor_update"
        /\ last.msg.cursor.x = (IF last.frame.x = None THEN 0 ELSE last.frame.x)

\* C29: no transport has accept() called on it more than once.
C29_AcceptedOnce ==
    \A c \in Conns : accepts[c] <= 1

\* C30: every cursor entry of user P in room R has a connection registered in
\* R and bound to P.
C30_NoOrphanPresence ==
    \A r \in DOMAIN user_cursors :
        \A u \in DOMAIN user_cursors[r] : RegisteredAs(r, u) # {}

\* the cleanup after a broadcast unregistered the only connection of a user,
\* whose cursor entry is gone, in a room that others stay in
C30_Witness ==
    /\ last.active
    /\ last.failed # <<>>
    /\ last.project_id \in DOMAIN user_cursors
    /\ \E u \in Users :
          /\ u \notin DOMAIN user_cursors[last.project_id]
          /\ RegisteredAs(last.project_id, u) = {}
          /\ u # last.user

\* the envelope types that name the participant they come from
IdentityTypes == {"user_joined", "cursor_update", "timeline_update", "chat_message"}

\* the participant id such an envelope carries
Identity(env) == IF env.type = "user_joined" THEN env.user.id ELSE env.user_id

\* C22: every user_joined, cursor_update, timeline_update and chat_message
\* envelope that a task has delivered carries the user id (and, where it has
\* one, the username) that the task's connection was bound to at connect,
\* whatever user_id and username the inbound frame carries.
C22_BoundIdentityOnly ==
    /\ \A c \in Conns :
          \A i \in DOMAIN out[c] :
              out[c][i].env.type \in IdentityTypes =>
                  Identity(out[c][i].env) = req[c].user
    /\ \A i \in DOMAIN last.delivered :
          LET env == last.delivered[i].env
          IN  env.type \in IdentityTypes =>
                  /\ Identity(env) = last.user
                  /\ env.type = "user_joined" => env.user.username = Username(last.user)
                  /\ env.type = "cursor_update" => env.cursor.username = Username(last.user)
                  /\ env.type = "chat_message" => env.username = Username(last.user)
    /\ \A c \in DOMAIN connection_users : connection_users[c].user_id = req[c].user

\* a timeline_update or cursor_update whose payload names another user was
\* relayed to another connection
C22_Witness ==
    /\ last.kind = "frame"
    /\ last.frame.type \in {"timeline_update", "cursor_update"}
    /\ last.frame.user_id \notin {None, last.user}
    /\ DeliveredTo(last.frame.type) \ {last.task} # {}

\* C26: the colour of every cursor entry is the palette's item at the user's
\* id modulo the palette's length, which is 10; entries of ids congruent
\* modulo 10 have the same colour, in whatever room and after whatever joins
\* and leaves.
C26_ColorByIdModPalette ==
    /\ Len(Palette) = 10
    /\ \A r \in DOMAIN user_cursors :
          \A u \in DOMAIN user_cursors[r] :
              user_cursors[r][u].color = Palette[(u % 10) + 1]
    /\ \A r1, r2 \in DOMAIN user_cursors :
          \A u1 \in DOMAIN user_cursors[r1], u2 \in DOMAIN user_cursors[r2] :
              u1 % 10 = u2 % 10 => user_cursors[r1][u1].color = user_cursors[r2][u2].color

\* users 1 and 11 are present in different rooms, with the same colour
C26_Witness ==
    /\ HasPresence(1, 1)
    /\ HasPresence(2, 11)
    /\ user_cursors[1][1].color = user_cursors[2][11].color

\* C31: in every state the rooms that have a connection list are the rooms
\* that have a cursor dict.
C31_RoomKeysAgree ==
    DOMAIN active_connections = DOMAIN user_cursors

\* a room has been deleted by the leave of its last connection while the
\* other room holds connections
C31_Witness ==
    /\ last.kind = "leave"
    /\ last.registered
    /\ last.project_id \notin DOMAIN active_connections
    /\ DOMAIN user_cursors # {}

\* the frame types the manager relays to a room
ManagerTypes == {"cursor_update", "timeline_update", "chat_message"}

\* C32: the handler of a cursor_update, timeline_update or chat_message frame
\* of a connection that is not in connection_users ends in the step that
\* received the frame, delivers no envelope and leaves the manager's three
\* dicts as they were.
C32_UnregisteredFrameIgnored ==
    [][\A c \in Conns, f \in Frames :
          (/\ pc[c] = "recv"
           /\ c \notin DOMAIN connection_users
           /\ frames' = frames + 1
           /\ f.type \in ManagerTypes
           /\ (bc'[c].frame = f \/ (last'.task = c /\ last'.frame = f))) =>
              /\ last'.task = c
              /\ last'.kind = "frame"
              /\ last'.delivered = <<>>
              /\ ~last'.active
              /\ pc'[c] = "recv"
              /\ out' = out
              /\ UNCHANGED mgrvars]_vars

\* a connection that the cleanup of another task's broadcast had unregistered
\* has had such a frame handled, while its room holds another connection
C32_Witness ==
    /\ last.kind = "frame"
    /\ ~last.registered
    /\ last.frame.type \in ManagerTypes
    /\ exit[last.task] = "running"
    /\ Registered(last.project_id) # {}

\* C33: the step that registers a connection leaves the room's cursor dict
\* with the entry connect builds for the user (x and y at 0, no timestamp),
\* whatever the entry was before, other users' entries being as they were.
C33_RejoinResetsCursor ==
    [][\A c \in Conns :
          (c \notin DOMAIN connection_users /\ c \in DOMAIN connection_users') =>
              LET p == connection_users'[c].project_id
                  u == connection_users'[c].user_id
              IN  /\ p \in DOMAIN user_cursors'
                  /\ u \in DOMAIN user_cursors'[p]
                  /\ user_cursors'[p][u] = InitCursor(u)
                  /\ user_cursors'[p][u].x = 0 /\ user_cursors'[p][u].y = 0
                  /\ \A q \in Accounts \ {u} :
                        IF HasPresence(p, q)
                        THEN /\ q \in DOMAIN user_cursors'[p]
                             /\ user_cursors'[p][q] = user_cursors[p][q]
                        ELSE q \notin DOMAIN user_cursors'[p]]_vars

\* user 1 moved the cursor to (10, 20), the relay of that update is still
\* under way, and a second connection of user 1 has joined the room: the
\* entry is back at (0, 0)
C33_Witness ==
    \E c, d \in Conns :
        /\ c # d
        /\ pc[c] = "bcast"
        /\ bc[c].kind = "frame"
        /\ bc[c].msg.type = "cursor_update"
        /\ bc[c].msg.cursor.x = 10
        /\ {c, d} \subseteq RegisteredAs(bc[c].room, req[c].user)
        /\ pc[d] = "bcast"
        /\ bc[d].kind = "join"
        /\ user_cursors[bc[c].room][req[c].user] = InitCursor(req[c].user)

\* the keys of a cursor entry that a cursor_update writes
PositionKeys == {"x", "y", "timestamp"}

\* C34: in every state a cursor entry's color and username are those of the
\* user's id; the step that receives a cursor_update changes no dict of the
\* manager but the sender's cursor entry, of which it sets x, y (0 when the
\* payload has none) and timestamp, and nothing else.
C34_CursorUpdateWritesPosition ==
    /\ [](\A r \in DOMAIN user_cursors :
            \A u \in DOMAIN user_cursors[r] :
                /\ {"color", "username"} \subseteq DOMAIN user_cursors[r][u]
                /\ user_cursors[r][u].color = GenerateUserColor(u)
                /\ user_cursors[r][u].username = Username(u))
    /\ [][\A c \in Conns, f \in Frames :
            (/\ pc[c] = "recv"
             /\ frames' = frames + 1
             /\ f.type = "cursor_update"
             /\ (bc'[c].frame = f \/ (last'.task = c /\ last'.frame = f))) =>
                /\ active_connections' = active_connections
                /\ connection_users' = connection_users
                /\ \A r \in Rooms, u \in Accounts :
                      \/ ~HasPresence(r, u) /\ ~HasPresence(r, u)'
                      \/ /\ HasPresence(r, u) /\ HasPresence(r, u)'
                         /\ IF c \in DOMAIN connection_users
                               /\ r = connection_users[c].project_id
                               /\ u = connection_users[c].user_id
                            THEN LET old == user_cursors[r][u]
                                     new == user_cursors'[r][u]
                                 IN  /\ DOMAIN new = DOMAIN old \cup PositionKeys
                                     /\ \A k \in DOMAIN old \ PositionKeys : new[k] = old[k]
                                     /\ new.x = (IF f.x = None THEN 0 ELSE f.x)
                                     /\ new.y = (IF f.y = None THEN 0 ELSE f.y)
                                     /\ new.timestamp = f.timestamp
                            ELSE user_cursors'[r][u] = user_cursors[r][u]]_vars

\* a cursor_update without x and y has been handled: the sender's entry has
\* a timestamp key, x and y at 0, and the color and username of the join
C34_Witness ==
    /\ last.kind = "frame"
    /\ last.frame.type = "cursor_update"
    /\ last.frame.x = None
    /\ HasPresence(last.project_id, last.user)
    /\ "timestamp" \in DOMAIN user_cursors[last.project_id][last.user]
    /\ user_cursors[last.project_id][last.user].x = 0
    /\ user_cursors[last.project_id][last.user].color = GenerateUserColor(last.user)

\* current_user has a membership row with this role in the project
HasRole(D, project_id, user_id, roles) ==
    \E row \in MemberRows(D, project_id, user_id) : row.role \in roles

\* C37: a delete_project request removes no project but the one it names,
\* and that one only when the requester has a membership row with role
\* "owner" in it; the request of a requester without one is answered 403 and
\* leaves every table as it was.
C37_OnlyOwnerDeletesProject ==
    [][resp'.op = "delete_project" =>
          LET owner == HasRole(db, resp'.id, resp'.user, {"owner"})
          IN  /\ DOMAIN db.projects \ DOMAIN db'.projects \subseteq {resp'.id}
              /\ db' # db => owner /\ resp'.status = 204
              /\ ~owner => resp'.status = 403 /\ db' = db]_vars

\* an owner has deleted a project while another project exists
C37_Witness ==
    /\ resp.op = "delete_project"
    /\ resp.status = 204
    /\ resp.id \notin DOMAIN db.projects
    /\ DOMAIN db.projects # {}

\* C38: in every state there is one membership row at most for a project
\* and a user; an add_project_member request of a requester without the
\* owner or editor role in the project is answered 403, one that names a
\* user who has a row in the project is answered 400 "User is already a
\* project member" (when the requester has the role), and both leave every
\* table as it was.
C38_OneMembershipPerPair ==
    /\ [](\A p \in ProjectIds, u \in Accounts :
            /\ Cardinality(MemberRows(db, p, u)) <= 1
            /\ \A row \in MemberRows(db, p, u) : CopiesIn(row, db.project_members) = 1)
    /\ [][resp'.op = "add_project_member" =>
            LET editor == HasRole(db, resp'.id, resp'.user, {"owner", "editor"})
                present == MemberRows(db, resp'.id, resp'.arg) # {}
            IN  /\ ~editor => resp'.status = 403 /\ db' = db
                /\ editor /\ present =>
                      /\ resp'.status = 400
                      /\ resp'.detail = "User is already a project member"
                      /\ db' = db
                /\ db' # db => editor /\ ~present]_vars

\* an editor's request to add a user who is a member has been answered 400,
\* in a project of three members
C38_Witness ==
    /\ resp.op = "add_project_member"
    /\ resp.status = 400
    /\ HasRole(db, resp.id, resp.user, {"editor"})
    /\ \A u \in Accounts : Cardinality(MemberRows(db, resp.id, u)) = 1

\* the last place at which the list names the clip, counted from 0
LastIndex(clip_order, clip_id) ==
    LET S == {i \in DOMAIN clip_order : clip_order[i] = clip_id}
    IN  (CHOOSE i \in S : \A j \in S : j <= i) - 1

\* C35: a reorder request of a requester with the owner or editor role in
\* the project is answered 200 whatever ids it lists, gives every clip of the
\* project that the list names its index in the list as start_time (the
\* last one, when the list names it more than once), and leaves every other
\* clip and every other table as they were; the request of any other
\* requester is answered 403 and changes nothing.
C35_ReorderRenumbersListedClips ==
    [][resp'.op = "reorder_timeline_clips" =>
          LET p == resp'.id
              clip_order == resp'.arg
              clips == db.timeline_clips
          IN  IF ~HasRole(db, p, resp'.user, {"owner", "editor"})
              THEN resp'.status = 403 /\ db' = db
              ELSE /\ resp'.status = 200
                   /\ db' = [db EXCEPT !.timeline_clips = db'.timeline_clips]
                   /\ DOMAIN db'.timeline_clips = DOMAIN clips
                   /\ \A c \in DOMAIN clips :
                         db'.timeline_clips[c] =
                             IF clips[c].project_id = p /\ c \in Range(clip_order)
                             THEN [clips[c] EXCEPT !.start_time = LastIndex(clip_order, c)]
                             ELSE clips[c]]_vars

\* a reorder has been answered 200 whose list names a clip of another
\* project first and a clip of the project second: the second is at 1, the
\* first where it was created
C35_Witness ==
    /\ resp.op = "reorder_timeline_clips"
    /\ resp.status = 200
    /\ Len(resp.arg) = 2
    /\ {resp.arg[1], resp.arg[2]} \subseteq DOMAIN db.timeline_clips
    /\ db.timeline_clips[resp.arg[1]].project_id # resp.id
    /\ db.timeline_clips[resp.arg[1]].start_time = ClipStart
    /\ db.timeline_clips[resp.arg[2]].project_id = resp.id
    /\ db.timeline_clips[resp.arg[2]].start_time = 1

====
